---- MODULE Spec2Model ----
(***************************************************************************)
(* TriChoice (src/app.py): the GLIDE score, its feasibility bucket and the *)
(* educational repair-vs-replacement rule set, as the script computes them *)
(* on every run.                                                           *)
(*                                                                         *)
(* String literals are those of the source, written in ASCII: the em dash  *)
(* is "--", the en dash and the non-breaking hyphen are "-", and the       *)
(* greater-or-equal sign is ">=".                                          *)
(***************************************************************************)
EXTENDS Integers, Sequences, FiniteSets, TLC

VARIABLES
    gap, loc, imgq, density, enface,              \* the five GLIDE select boxes
    tr_severity, rv_function, ph_status, cied_lead, \* the clinical select boxes
    glide,            \* module-level glide (line 46)
    repair_bucket,    \* module-level repair_bucket (lines 49-54)
    choice, reasons,  \* module-level result of recommend (line 106)
    outcome,          \* how the last run of the script ended: "ok" or the error raised
    observed,         \* history: whether this session's calls are being recorded
    calls             \* history: the calls of recommend so far, oldest first

vars == <<gap, loc, imgq, density, enface, tr_severity, rv_function, ph_status,
          cied_lead, glide, repair_bucket, choice, reasons, outcome, observed, calls>>

\* An observed session is followed for this many runs of the script.
MaxCalls == 3

----------------------------------------------------------------------------
(* The option lists of the select boxes, in the order of the source.       *)

TrSeverityOptions == <<"Severe", "Massive", "Torrential">>
RvFunctionOptions == <<"Normal/mildly impaired", "Moderately impaired", "Severely impaired">>
PhStatusOptions == <<"None/mild", "Moderate", "Severe/pre-capillary">>
CiedLeadOptions == <<"No", "Yes -- not impinging", "Yes -- impinging / causal">>

GapOptions == <<"Favorable (small/moderate)", "Unfavorable (large)">>
LocOptions == <<"Favorable (central)", "Unfavorable (commissural/off-axis/multiple)">>
ImgqOptions == <<"Good/Excellent", "Suboptimal/Shadowing">>
DensityOptions == <<"Low/typical", "High/dense (tethered/subvalvular crowding)">>
EnfaceOptions == <<"Focal/single", "Diffuse/multi-jet">>

Range(s) == {s[i] : i \in DOMAIN s}

----------------------------------------------------------------------------
(* Compute GLIDE.                                                          *)

\* Python's  sub in s  on strings: sub occurs in s as a contiguous run.
Contains(sub, s) ==
    \E i \in 1..(Len(s) - Len(sub) + 1) : SubSeq(s, i, i + Len(sub) - 1) = sub

UnfavorableList ==
    {"Suboptimal/Shadowing", "High/dense (tethered/subvalvular crowding)", "Diffuse/multi-jet"}

\* A slip that drops the last entry of the list.
point_short(x) ==
    IF Contains("Unfavorable", x)
          \/ x \in {"Suboptimal/Shadowing", "High/dense (tethered/subvalvular crowding)"}
    THEN 1 ELSE 0

point(x) ==
    IF Contains("Unfavorable", x) \/ x \in UnfavorableList THEN 1 ELSE 0

Glide(g, l, i, d, e) == point(g) + point(l) + point(i) + point(d) + point(e)

BucketHigh == "High likelihood of successful T-TEER (GLIDE 0-1)"
BucketIntermediate == "Intermediate likelihood of T-TEER success (GLIDE 2-3)"
BucketLow == "Low likelihood of T-TEER success (GLIDE >=4)"

\* A slip in the first threshold.
RepairBucket_lt(g) ==
    IF g < 1 THEN BucketHigh
    ELSE IF 2 <= g /\ g <= 3 THEN BucketIntermediate
    ELSE BucketLow

RepairBucket(g) ==
    IF g <= 1 THEN BucketHigh
    ELSE IF 2 <= g /\ g <= 3 THEN BucketIntermediate
    ELSE BucketLow

----------------------------------------------------------------------------
(* Decision logic.                                                         *)

ChoiceBorderline == "Borderline -- Heart Team review"
ChoiceRepair == "Repair favored (TriClip -- T-TEER)"
ChoiceReplacement == "Replacement favored (TTVR)"

RepairMandatory ==
    "GLIDE 0-1 associated with >90% acute T-TEER success. [1](https://www.scholars.northwestern.edu/en/publications/glide-score-scoring-system-for-prediction-of-procedural-success-i)"
RepairFutility ==
    "However, severe PH or end-stage RV dysfunction may indicate limited benefit/futility; still consider repair for incremental reduction. [4](https://www.frontiersin.org/journals/cardiovascular-medicine/articles/10.3389/fcvm.2024.1447411/full)[10](https://academic.oup.com/eurheartjsupp/article/27/Supplement_3/iii162/8114533)"
RepairLead ==
    "CIED lead interaction requires strategy (work around vs lead management). [3](https://citoday.com/articles/2024-sept-oct/t-teer-versus-ttvr-considerations-for-transcatheter-tricuspid-valve-therapy-choice)"
ReplacementMandatory ==
    "GLIDE >=4 predicts low probability of T-TEER success; consider TTVR if anatomy suitable. [1](https://www.scholars.northwestern.edu/en/publications/glide-score-scoring-system-for-prediction-of-procedural-success-i)"
ReplacementAfterload ==
    "Beware RV afterload mismatch and higher risk of RV failure/pacemaker need after TTVR. [3](https://citoday.com/articles/2024-sept-oct/t-teer-versus-ttvr-considerations-for-transcatheter-tricuspid-valve-therapy-choice)[5](https://www.acc.org/latest-in-cardiology/articles/2024/10/24/19/43/sun-215pm-tricuspid-valve-treatments-tct-2024)"
ReplacementLead ==
    "Assess lead management before TTVR to avoid lead entrapment. [3](https://citoday.com/articles/2024-sept-oct/t-teer-versus-ttvr-considerations-for-transcatheter-tricuspid-valve-therapy-choice)"
BorderlineMandatory ==
    "GLIDE 2-3 = intermediate T-TEER success; use RV function, PH, TR extent, and lead status to choose. [3](https://citoday.com/articles/2024-sept-oct/t-teer-versus-ttvr-considerations-for-transcatheter-tricuspid-valve-therapy-choice)"
BorderlineRepair ==
    "If RV is preserved and PH not severe, a stepwise **repair** may be preferred for safety and gradated reduction. [3](https://citoday.com/articles/2024-sept-oct/t-teer-versus-ttvr-considerations-for-transcatheter-tricuspid-valve-therapy-choice)"
BorderlineReplacement ==
    "If TR is torrential or anatomy/lead unfavorable for grasping, **replacement** may provide more reliable elimination of TR. [3](https://citoday.com/articles/2024-sept-oct/t-teer-versus-ttvr-considerations-for-transcatheter-tricuspid-valve-therapy-choice)"

\* reasons.append(r) under  if c:
AppendIf(c, rs, r) == IF c THEN Append(rs, r) ELSE rs

\* A list that outlives the call (a module-level list, a mutable default).
NewReasons_shared == reasons

\* reasons = []  : a list made anew by every call.
NewReasons == <<>>

\* Convenience flags.
severe_rv_notnormal(rv) == rv # "Normal/mildly impaired"

severe_rv(rv) == rv = "Severely impaired"
severe_ph(ph) == ph = "Severe/pre-capillary"
torrential(tr) == tr = "Torrential"
lead_imping(lead) == lead = "Yes -- impinging / causal"

\* The second check written as an elif of the first.
RepairBranch_elif(rv, ph, lead) ==
    LET r1 == Append(NewReasons, RepairMandatory)
    IN  <<ChoiceRepair,
          IF severe_ph(ph) \/ severe_rv(rv) THEN Append(r1, RepairFutility)
          ELSE AppendIf(lead_imping(lead), r1, RepairLead)>>

\* The first check written with  and.
RepairBranch_and(rv, ph, lead) ==
    LET r1 == Append(NewReasons, RepairMandatory)
        r2 == AppendIf(severe_ph(ph) /\ severe_rv(rv), r1, RepairFutility)
    IN  <<ChoiceRepair, AppendIf(lead_imping(lead), r2, RepairLead)>>

\* if glide <= 1:
RepairBranch(rv, ph, lead) ==
    LET r1 == Append(NewReasons, RepairMandatory)
        r2 == AppendIf(severe_ph(ph) \/ severe_rv(rv), r1, RepairFutility)
    IN  <<ChoiceRepair, AppendIf(lead_imping(lead), r2, RepairLead)>>

\* The first check widened to severe PH, as in the repair branch.
ReplacementBranch_ph(rv, ph, lead) ==
    LET r1 == Append(NewReasons, ReplacementMandatory)
        r2 == AppendIf(severe_rv(rv) \/ severe_ph(ph), r1, ReplacementAfterload)
    IN  <<ChoiceReplacement, AppendIf(lead_imping(lead), r2, ReplacementLead)>>

\* elif glide >= 4:
ReplacementBranch(rv, ph, lead) ==
    LET r1 == Append(NewReasons, ReplacementMandatory)
        r2 == AppendIf(severe_rv(rv), r1, ReplacementAfterload)
    IN  <<ChoiceReplacement, AppendIf(lead_imping(lead), r2, ReplacementLead)>>

\* The first check with the negation applied to a conjunction.
BorderlineBranch_and(rv, ph, tr, lead) ==
    LET r1 == Append(NewReasons, BorderlineMandatory)
        r2 == AppendIf(~(severe_rv(rv) /\ severe_ph(ph)) /\ ~torrential(tr), r1, BorderlineRepair)
    IN  <<ChoiceBorderline, AppendIf(torrential(tr) \/ lead_imping(lead), r2, BorderlineReplacement)>>

\* else:  (GLIDE 2-3)
BorderlineBranch(rv, ph, tr, lead) ==
    LET r1 == Append(NewReasons, BorderlineMandatory)
        r2 == AppendIf(~(severe_rv(rv) \/ severe_ph(ph)) /\ ~torrential(tr), r1, BorderlineRepair)
    IN  <<ChoiceBorderline, AppendIf(torrential(tr) \/ lead_imping(lead), r2, BorderlineReplacement)>>

\* The two thresholds off by one.
recommend_off(g, rv, ph, tr, lead) ==
    IF g < 1 THEN RepairBranch(rv, ph, lead)
    ELSE IF g > 4 THEN ReplacementBranch(rv, ph, lead)
    ELSE BorderlineBranch(rv, ph, tr, lead)

\* recommend(glide, rv_function, ph_status, tr_severity, cied_lead): <<choice, reasons>>
recommend(g, rv, ph, tr, lead) ==
    IF g <= 1 THEN RepairBranch(rv, ph, lead)
    ELSE IF g >= 4 THEN ReplacementBranch(rv, ph, lead)
    ELSE BorderlineBranch(rv, ph, tr, lead)

----------------------------------------------------------------------------
(* The script.  Streamlit runs it from top to bottom once when the session *)
(* starts and once more after every change of a widget.                    *)

\* One run of the script with the widgets holding the given values.
Run(g, l, i, d, e, tr, rv, ph, lead) ==
    LET score == Glide(g, l, i, d, e)
        rec == recommend(score, rv, ph, tr, lead)
    IN  /\ observed => Len(calls) < MaxCalls
        /\ gap' = g /\ loc' = l /\ imgq' = i /\ density' = d /\ enface' = e
        /\ tr_severity' = tr /\ rv_function' = rv /\ ph_status' = ph /\ cied_lead' = lead
        /\ glide' = score
        /\ repair_bucket' = RepairBucket(score)
        /\ choice' = rec[1]
        /\ reasons' = rec[2]
        /\ outcome' = "ok"
        /\ observed' = observed
        /\ calls' = IF observed
                    THEN Append(calls, [args |-> <<score, rv, ph, tr, lead>>, result |-> rec])
                    ELSE calls

\* The first run: every select box shows its first option.
FirstRun ==
    /\ gap = GapOptions[1] /\ loc = LocOptions[1] /\ imgq = ImgqOptions[1]
    /\ density = DensityOptions[1] /\ enface = EnfaceOptions[1]
    /\ tr_severity = TrSeverityOptions[1] /\ rv_function = RvFunctionOptions[1]
    /\ ph_status = PhStatusOptions[1] /\ cied_lead = CiedLeadOptions[1]
    /\ glide = 0
    /\ repair_bucket = BucketHigh
    /\ choice = ChoiceRepair
    /\ reasons = <<RepairMandatory>>
    /\ outcome = "ok"

Init ==
    /\ FirstRun
    /\ observed \in BOOLEAN
    /\ calls = IF observed
               THEN <<[args |-> <<glide, rv_function, ph_status, tr_severity, cied_lead>>,
                       result |-> <<choice, reasons>>]>>
               ELSE <<>>

SelectGap(v) ==
    v # gap /\ Run(v, loc, imgq, density, enface, tr_severity, rv_function, ph_status, cied_lead)
SelectLoc(v) ==
    v # loc /\ Run(gap, v, imgq, density, enface, tr_severity, rv_function, ph_status, cied_lead)
SelectImgq(v) ==
    v # imgq /\ Run(gap, loc, v, density, enface, tr_severity, rv_function, ph_status, cied_lead)
SelectDensity(v) ==
    v # density /\ Run(gap, loc, imgq, v, enface, tr_severity, rv_function, ph_status, cied_lead)
SelectEnface(v) ==
    v # enface /\ Run(gap, loc, imgq, density, v, tr_severity, rv_function, ph_status, cied_lead)
SelectTrSeverity(v) ==
    v # tr_severity /\ Run(gap, loc, imgq, density, enface, v, rv_function, ph_status, cied_lead)
SelectRvFunction(v) ==
    v # rv_function /\ Run(gap, loc, imgq, density, enface, tr_severity, v, ph_status, cied_lead)
SelectPhStatus(v) ==
    v # ph_status /\ Run(gap, loc, imgq, density, enface, tr_severity, rv_function, v, cied_lead)
SelectCiedLead(v) ==
    v # cied_lead /\ Run(gap, loc, imgq, density, enface, tr_severity, rv_function, ph_status, v)

\* A change of a widget the engine does not read (etiology, surgical risk,
\* end-organ dysfunction, the uploaded screenshot): the script runs again
\* with the same nine values.
OtherWidget ==
    Run(gap, loc, imgq, density, enface, tr_severity, rv_function, ph_status, cied_lead)

Next ==
    \/ \E v \in Range(GapOptions) : SelectGap(v)
    \/ \E v \in Range(LocOptions) : SelectLoc(v)
    \/ \E v \in Range(ImgqOptions) : SelectImgq(v)
    \/ \E v \in Range(DensityOptions) : SelectDensity(v)
    \/ \E v \in Range(EnfaceOptions) : SelectEnface(v)
    \/ \E v \in Range(TrSeverityOptions) : SelectTrSeverity(v)
    \/ \E v \in Range(RvFunctionOptions) : SelectRvFunction(v)
    \/ \E v \in Range(PhStatusOptions) : SelectPhStatus(v)
    \/ \E v \in Range(CiedLeadOptions) : SelectCiedLead(v)
    \/ OtherWidget

Spec == Init /\ [][Next]_vars

----------------------------------------------------------------------------
(* The score computation applied to arbitrary strings: the five values are *)
(* handed to the script as they are, whether or not the select box of the  *)
(* input offers them.                                                      *)

\* Strings no select box of the input offers: one that no input offers, and
\* two that other inputs offer.
StrayValues == {"Unknown", "Unfavorable (large)", "Diffuse/multi-jet"}

PassGap(v) ==
    v # gap /\ Run(v, loc, imgq, density, enface, tr_severity, rv_function, ph_status, cied_lead)
PassLoc(v) ==
    v # loc /\ Run(gap, v, imgq, density, enface, tr_severity, rv_function, ph_status, cied_lead)
PassImgq(v) ==
    v # imgq /\ Run(gap, loc, v, density, enface, tr_severity, rv_function, ph_status, cied_lead)
PassDensity(v) ==
    v # density /\ Run(gap, loc, imgq, v, enface, tr_severity, rv_function, ph_status, cied_lead)
PassEnface(v) ==
    v # enface /\ Run(gap, loc, imgq, density, v, tr_severity, rv_function, ph_status, cied_lead)

InitCall == FirstRun /\ observed = FALSE /\ calls = <<>>

NextCall ==
    \/ \E v \in Range(GapOptions) \cup StrayValues : PassGap(v)
    \/ \E v \in Range(LocOptions) \cup StrayValues : PassLoc(v)
    \/ \E v \in Range(ImgqOptions) \cup StrayValues : PassImgq(v)
    \/ \E v \in Range(DensityOptions) \cup StrayValues : PassDensity(v)
    \/ \E v \in Range(EnfaceOptions) \cup StrayValues : PassEnface(v)

SpecCall == InitCall /\ [][NextCall]_vars

----------------------------------------------------------------------------
(* Properties.                                                             *)

\* The unfavorable category of each anatomic input.
GapUnfavorable == "Unfavorable (large)"
LocUnfavorable == "Unfavorable (commissural/off-axis/multiple)"
ImgqUnfavorable == "Suboptimal/Shadowing"
DensityUnfavorable == "High/dense (tethered/subvalvular crowding)"
EnfaceUnfavorable == "Diffuse/multi-jet"

One(b) == IF b THEN 1 ELSE 0

AnatomicValid ==
    /\ gap \in Range(GapOptions) /\ loc \in Range(LocOptions)
    /\ imgq \in Range(ImgqOptions) /\ density \in Range(DensityOptions)
    /\ enface \in Range(EnfaceOptions)

UnfavorableCount ==
    One(gap = GapUnfavorable) + One(loc = LocUnfavorable) + One(imgq = ImgqUnfavorable)
        + One(density = DensityUnfavorable) + One(enface = EnfaceUnfavorable)

\* C1: with the five anatomic inputs in their own categories, the score is
\* the number of inputs in their unfavorable category, each counting 1, and
\* lies in 0..5.
C1_ScoreCountsUnfavorable ==
    AnatomicValid => glide = UnfavorableCount /\ glide \in 0..5

\* C1 witness: a run with three inputs unfavorable and two favorable.
C1_Witness ==
    /\ gap = GapUnfavorable /\ loc = "Favorable (central)" /\ imgq = ImgqUnfavorable
    /\ density = "Low/typical" /\ enface = EnfaceUnfavorable
    /\ glide = 3

BucketRank(b) ==
    IF b = BucketHigh THEN 0 ELSE IF b = BucketIntermediate THEN 1 ELSE 2

\* C2: the bucket is decided by the score alone: 0 and 1 give High, 2 and 3
\* give Intermediate, 4 and 5 give Low, the three buckets are distinct, and
\* the bucket never moves toward higher likelihood as the score grows.
C2_BucketPartition ==
    /\ glide \in {0, 1} => repair_bucket = BucketHigh
    /\ glide \in {2, 3} => repair_bucket = BucketIntermediate
    /\ glide \in {4, 5} => repair_bucket = BucketLow
    /\ Cardinality({BucketHigh, BucketIntermediate, BucketLow}) = 3
    /\ \A a, b \in 0..5 :
          a <= b => BucketRank(RepairBucket(a)) <= BucketRank(RepairBucket(b))

\* C2 witness: a run at the upper edge of the middle bucket.
C2_Witness == glide = 3 /\ repair_bucket = BucketIntermediate

\* C3: the score alone selects the band: at most 1 gives the repair label
\* and its mandatory reason first, at least 4 the replacement label and its
\* mandatory reason first, 2 or 3 the borderline label and its mandatory
\* reason first, whatever the four clinical inputs are.
C3_BandByScore ==
    /\ Len(reasons) >= 1
    /\ glide <= 1 => choice = ChoiceRepair /\ reasons[1] = RepairMandatory
    /\ glide >= 4 => choice = ChoiceReplacement /\ reasons[1] = ReplacementMandatory
    /\ glide \in {2, 3} => choice = ChoiceBorderline /\ reasons[1] = BorderlineMandatory

\* C3 witness: a run at score 4 with every clinical input at its severe grade.
C3_Witness ==
    /\ glide = 4 /\ choice = ChoiceReplacement
    /\ rv_function = "Severely impaired" /\ ph_status = "Severe/pre-capillary"
    /\ tr_severity = "Torrential" /\ cied_lead = "Yes -- impinging / causal"

Opt(b, r) == IF b THEN <<r>> ELSE <<>>

\* C4: at score 2 or 3 the reasons are the mandatory one, then the stepwise
\* repair reason exactly when RV is not severely impaired, PH is not
\* severe/pre-capillary and TR is not torrential, then the replacement
\* reason exactly when TR is torrential or the lead is impinging; so score 3
\* with severe RV, PH none/mild, TR severe and no lead gives one reason.
C4_BorderlineReasons ==
    /\ glide \in {2, 3} =>
          reasons = <<BorderlineMandatory>>
                      \o Opt(/\ rv_function # "Severely impaired"
                             /\ ph_status # "Severe/pre-capillary"
                             /\ tr_severity # "Torrential", BorderlineRepair)
                      \o Opt(\/ tr_severity = "Torrential"
                             \/ cied_lead = "Yes -- impinging / causal", BorderlineReplacement)
    /\ (/\ glide = 3 /\ rv_function = "Severely impaired" /\ ph_status = "None/mild"
        /\ tr_severity = "Severe" /\ cied_lead = "No") => Len(reasons) = 1

\* C4 witness: score 3, severe RV, PH none/mild, TR severe, no lead.
C4_Witness ==
    /\ glide = 3 /\ rv_function = "Severely impaired" /\ ph_status = "None/mild"
    /\ tr_severity = "Severe" /\ cied_lead = "No"
    /\ choice = ChoiceBorderline /\ Len(reasons) = 1

\* C5: at score 0 or 1 the reasons are the mandatory one, then the futility
\* caution exactly when PH is severe/pre-capillary or RV is severely
\* impaired, then the lead-strategy note exactly when the lead is impinging;
\* so score 0 with severe PH and an impinging lead gives three reasons.
C5_RepairReasons ==
    /\ glide \in {0, 1} =>
          reasons = <<RepairMandatory>>
                      \o Opt(\/ ph_status = "Severe/pre-capillary"
                             \/ rv_function = "Severely impaired", RepairFutility)
                      \o Opt(cied_lead = "Yes -- impinging / causal", RepairLead)
    /\ (/\ glide = 0 /\ ph_status = "Severe/pre-capillary"
        /\ cied_lead = "Yes -- impinging / causal") => Len(reasons) = 3

\* C5 witness: score 0, severe PH with RV not severe, impinging lead.
C5_Witness ==
    /\ glide = 0 /\ ph_status = "Severe/pre-capillary"
    /\ rv_function = "Normal/mildly impaired"
    /\ cied_lead = "Yes -- impinging / causal"
    /\ choice = ChoiceRepair /\ Len(reasons) = 3

\* C6: at score 4 or 5 the reasons are the mandatory one, then the
\* afterload caution exactly when RV is severely impaired, then the lead
\* management note exactly when the lead is impinging; severe PH and the TR
\* grade add nothing.
C6_ReplacementReasons ==
    glide \in {4, 5} =>
        reasons = <<ReplacementMandatory>>
                    \o Opt(rv_function = "Severely impaired", ReplacementAfterload)
                    \o Opt(cied_lead = "Yes -- impinging / causal", ReplacementLead)

\* C6 witness: score 5 with severe PH and torrential TR alone: one reason.
C6_Witness ==
    /\ glide = 5 /\ ph_status = "Severe/pre-capillary" /\ tr_severity = "Torrential"
    /\ rv_function = "Moderately impaired" /\ cied_lead = "Yes -- not impinging"
    /\ reasons = <<ReplacementMandatory>>

AnyStray ==
    \/ gap \notin Range(GapOptions) \/ loc \notin Range(LocOptions)
    \/ imgq \notin Range(ImgqOptions) \/ density \notin Range(DensityOptions)
    \/ enface \notin Range(EnfaceOptions)

\* C7: when an anatomic input is outside its own two categories, the score
\* computation fails with InvalidInput instead of producing a score.
C7_StrayValueRaises == AnyStray => outcome = "InvalidInput"

SameReasons(a, b) == a.args = b.args => a.result = b.result

\* The reasons a band can give.
BandReasons(g) ==
    IF g <= 1 THEN {RepairMandatory, RepairFutility, RepairLead}
    ELSE IF g >= 4 THEN {ReplacementMandatory, ReplacementAfterload, ReplacementLead}
    ELSE {BorderlineMandatory, BorderlineRepair, BorderlineReplacement}

\* C8: any two calls of recommend with the same five arguments return the
\* same label and reasons, whatever was called in between; and the reasons
\* of a call are reasons of its own band, each at most once, so none is left
\* over from an earlier call.
C8_CallsIndependent ==
    /\ \A i, j \in DOMAIN calls : SameReasons(calls[i], calls[j])
    /\ \A i \in DOMAIN reasons : reasons[i] \in BandReasons(glide)
    /\ \A i, j \in DOMAIN reasons : i # j => reasons[i] # reasons[j]

\* C8 witness: three recorded calls, the first and the third with the same
\* arguments, the second with other arguments.
C8_Witness ==
    /\ observed /\ Len(calls) = 3
    /\ calls[1].args = calls[3].args
    /\ calls[2].args # calls[1].args

Clinical ==
    Range(RvFunctionOptions) \X Range(PhStatusOptions)
        \X Range(TrSeverityOptions) \X Range(CiedLeadOptions)

ReasonsAt(g, c) == recommend(g, c[1], c[2], c[3], c[4])[2]

\* The number of the band's two conditional checks that hold.
ChecksHolding ==
    IF glide <= 1
    THEN One(ph_status = "Severe/pre-capillary" \/ rv_function = "Severely impaired")
           + One(cied_lead = "Yes -- impinging / causal")
    ELSE IF glide >= 4
    THEN One(rv_function = "Severely impaired") + One(cied_lead = "Yes -- impinging / causal")
    ELSE One(/\ rv_function # "Severely impaired" /\ ph_status # "Severe/pre-capillary"
             /\ tr_severity # "Torrential")
           + One(tr_severity = "Torrential" \/ cied_lead = "Yes -- impinging / causal")

BothAndNeither ==
    \A g \in 0..5 :
        /\ \E c \in Clinical : Len(ReasonsAt(g, c)) = 3
        /\ \E c \in Clinical : Len(ReasonsAt(g, c)) = 1

\* C9: the reasons list has length 1 plus the number of the band's two
\* checks that hold, so between 1 and 3, with the band's mandatory reason
\* first; and in every band some clinical context gives three reasons and
\* some gives one.
C9_ReasonsLength ==
    /\ Len(reasons) = 1 + ChecksHolding
    /\ Len(reasons) \in 1..3
    /\ reasons[1] \in {RepairMandatory, ReplacementMandatory, BorderlineMandatory}
    /\ BothAndNeither

\* C9 witness: a borderline run in which both checks hold.
C9_Witness ==
    /\ glide = 2 /\ tr_severity = "Massive" /\ cied_lead = "Yes -- impinging / causal"
    /\ Len(reasons) = 3

Band(g) == IF g <= 1 THEN "repair" ELSE IF g >= 4 THEN "replacement" ELSE "borderline"

\* The same band and the same four severe-grade flags as this run.
SameClass(g, c) ==
    /\ Band(g) = Band(glide)
    /\ (c[1] = "Severely impaired") = (rv_function = "Severely impaired")
    /\ (c[2] = "Severe/pre-capillary") = (ph_status = "Severe/pre-capillary")
    /\ (c[3] = "Torrential") = (tr_severity = "Torrential")
    /\ (c[4] = "Yes -- impinging / causal") = (cied_lead = "Yes -- impinging / causal")

\* C10: recommend gives this run's label and reasons for every score of the
\* same band and every clinical context with the same four flags (severe
\* RV, severe PH, torrential TR, impinging lead): the non-severe grades and
\* the score within its band make no difference.
C10_OnlyFlagsAndBand ==
    \A g \in 0..5 : \A c \in Clinical :
        SameClass(g, c) =>
            recommend(g, c[1], c[2], c[3], c[4]) = <<choice, reasons>>

\* C10 witness: a run with every clinical input at its middle grade.
C10_Witness ==
    /\ glide = 1 /\ rv_function = "Moderately impaired" /\ ph_status = "Moderate"
    /\ tr_severity = "Massive" /\ cied_lead = "Yes -- not impinging"
    /\ reasons = <<RepairMandatory>>

====
